---- MODULE Spec2Model ----
(***************************************************************************)
(* Model of the typestate SELECT builder of surrealdb_extra                *)
(* (src/surrealdb_extra/src/query/builder/select.rs).                      *)
(*                                                                         *)
(* A builder is a value that every method consumes and returns anew.  The  *)
(* three PhantomData type parameters are modelled as three string fields;  *)
(* an impl block's type parameters become the guard of its methods.        *)
(* Option<T> is modelled as a sequence of length 0 (None) or 1 (Some).     *)
(***************************************************************************)
EXTENDS Integers, Sequences, FiniteSets, TLC

\* ------------------------------------------------------------------ bounds
\* longest call log explored: the `new` entry plus MaxCalls - 1 method calls
MaxCalls == 5
\* the numeric arguments of limit/start/version/timeout range over 1..MaxNum
MaxNum == 2

\* ------------------------------------------------------------ input spaces
\* the connections a builder can be bound to
Connections == {"db1", "db2"}
\* table names / identifier texts used at the call sites
Names == {"a", "b"}
Nums == 1..MaxNum

None == <<>>
Some(x) == <<x>>

\* what(..) accepts a bare table name or a record reference
WhatArgs ==
    [kind : {"text"}, text : {"t"}]
        \cup [kind : {"thing"}, tb : {"t"}, id : {"1"}]

\* field(..) accepts the wildcard, bare text, an (expression, alias) pair or
\* a pre-built Field
FieldArgs ==
    {[kind |-> "all"]}
        \cup [kind : {"text"}, text : Names]
        \cup [kind : {"pair"}, expr : {"a"}, alias : {"b"}]
        \cup [kind : {"raw"}, field : {[expr |-> "a", alias |-> None]}]

\* condition(..) accepts free-form text, given as its sequence of lexemes;
\* the chains of Spec use one-identifier texts
CondArgs == [kind : {"text"}, text : {<<n>> : n \in Names}]

\* omit/split/group/fetch(..) accept bare text
IdiomArgs == [kind : {"text"}, text : Names]

\* order(..) accepts a (text, direction) pair
OrderArgs == [kind : {"pair"}, text : {"a"}, dir : {"ASC", "DESC"}]

\* with(..) accepts an index name
WithArgs == [kind : {"text"}, text : Names]

\* ------------------------------------------------------------- conversions
\* impl Into<ExtraValue>: the target selector, a list of values
IntoExtraValue(w) ==
    IF w.kind = "text"
    THEN << [value |-> "Table", tb |-> w.text] >>
    ELSE << [value |-> "Thing", tb |-> w.tb, id |-> w.id] >>

\* impl Into<ExtraField>: one canonical projection fragment
IntoExtraField(f) ==
    CASE f.kind = "all"  -> [field |-> "All"]
      [] f.kind = "text" -> [field |-> "Single", expr |-> f.text, alias |-> None]
      [] f.kind = "pair" -> [field |-> "Single", expr |-> f.expr, alias |-> Some(f.alias)]
      [] f.kind = "raw"  -> [field |-> "Single", expr |-> f.field.expr, alias |-> f.field.alias]

\* ---------------------------------------------- the condition expression
\* ConditionExpression: field reference, unary not, binary (comparison, AND,
\* OR), parenthesized group
ExprIdiom(path) == [cond |-> "Idiom", path |-> path]
ExprNot(sub) == [cond |-> "Not", sub |-> sub]
ExprBinary(l, o, r) == [cond |-> "Binary", l |-> l, o |-> o, r |-> r]
ExprGroup(sub) == [cond |-> "Group", sub |-> sub]

\* the identifiers of free-form text
Idents == Names \cup {"x", "y"}

\* variant: keywords are recognized in upper case only
Upper_CaseSensitive(lexeme) ==
    lexeme

\* the canonical form of a lexeme: keywords in upper case
Upper(lexeme) ==
    CASE lexeme = "and" -> "AND"
      [] lexeme = "or"  -> "OR"
      [] OTHER          -> lexeme

\* a text with every keyword in canonical form
Normalized(text) == [i \in 1..Len(text) |-> Upper(text[i])]

\* the operand a single structured token stands for: bare text, a
\* (left, operator, right) comparison, an (operator, operand) unary or a
\* nested sequence, which becomes a group
RECURSIVE FoldTokens(_)
Operand(tok) ==
    CASE tok.t = "text"  -> ExprIdiom(tok.v)
      [] tok.t = "cmp"   -> ExprBinary(ExprIdiom(tok.l), tok.o, ExprIdiom(tok.r))
      [] tok.t = "unary" -> ExprNot(ExprIdiom(tok.v))
      [] tok.t = "sub"   -> ExprGroup(FoldTokens(tok.seq))

\* variant: AND binds tighter than a preceding OR
FoldTokens_Precedence(ts) ==
    IF Len(ts) = 1
    THEN Operand(ts[1])
    ELSE LET front == FoldTokens(SubSeq(ts, 1, Len(ts) - 2))
             o     == ts[Len(ts) - 1].o
             last  == Operand(ts[Len(ts)])
         IN  IF o = "AND" /\ front.cond = "Binary" /\ front.o = "OR"
             THEN ExprBinary(front.l, "OR", ExprBinary(front.r, "AND", last))
             ELSE ExprBinary(front, o, last)

\* a token sequence operand (operator operand)* folded left to right
FoldTokens(ts) ==
    IF Len(ts) = 1
    THEN Operand(ts[1])
    ELSE ExprBinary(FoldTokens(SubSeq(ts, 1, Len(ts) - 2)),
                ts[Len(ts) - 1].o,
                Operand(ts[Len(ts)]))

\* the rendering of an expression, as its sequence of lexemes
RECURSIVE Render(_)
Render(e) ==
    CASE e.cond = "Idiom"  -> <<e.path>>
      [] e.cond = "Not"    -> <<"!">> \o Render(e.sub)
      [] e.cond = "Binary" -> Render(e.l) \o <<e.o>> \o Render(e.r)
      [] e.cond = "Group"  -> <<"(">> \o Render(e.sub) \o <<")">>

\* the textual condition parser: OR below AND below ! below comparison;
\* a result is [ok, tree, rest]
Fail == [ok |-> FALSE, tree |-> <<>>, rest |-> <<>>]
Parsed(tree, rest) == [ok |-> TRUE, tree |-> tree, rest |-> rest]

RECURSIVE ParseOr(_)
RECURSIVE ParseUnary(_)
RECURSIVE AndTail(_, _)
RECURSIVE OrTail(_, _)

ParseAtom(lx) ==
    IF lx = <<>> THEN Fail
    ELSE IF Head(lx) \in Idents THEN Parsed(ExprIdiom(Head(lx)), Tail(lx))
    ELSE IF Head(lx) = "("
         THEN LET r == ParseOr(Tail(lx))
              IN  IF r.ok /\ r.rest # <<>> /\ Head(r.rest) = ")"
                  THEN Parsed(ExprGroup(r.tree), Tail(r.rest))
                  ELSE Fail
    ELSE Fail

ParseCmp(lx) ==
    LET a == ParseAtom(lx)
    IN  IF ~ a.ok THEN Fail
        ELSE IF a.rest # <<>> /\ Head(a.rest) = "="
             THEN LET b == ParseAtom(Tail(a.rest))
                  IN  IF b.ok
                      THEN Parsed(ExprBinary(a.tree, "=", b.tree), b.rest)
                      ELSE Fail
        ELSE a

ParseUnary(lx) ==
    IF lx # <<>> /\ Head(lx) = "!"
    THEN LET u == ParseUnary(Tail(lx))
         IN  IF u.ok THEN Parsed(ExprNot(u.tree), u.rest) ELSE Fail
    ELSE ParseCmp(lx)

AndTail(acc, rest) ==
    IF rest # <<>> /\ Upper(Head(rest)) = "AND"
    THEN LET u == ParseUnary(Tail(rest))
         IN  IF u.ok THEN AndTail(ExprBinary(acc, "AND", u.tree), u.rest) ELSE Fail
    ELSE Parsed(acc, rest)

ParseAnd(lx) ==
    LET u == ParseUnary(lx)
    IN  IF u.ok THEN AndTail(u.tree, u.rest) ELSE Fail

OrTail(acc, rest) ==
    IF rest # <<>> /\ Upper(Head(rest)) = "OR"
    THEN LET a == ParseAnd(Tail(rest))
         IN  IF a.ok THEN OrTail(ExprBinary(acc, "OR", a.tree), a.rest) ELSE Fail
    ELSE Parsed(acc, rest)

ParseOr(lx) ==
    LET a == ParseAnd(lx)
    IN  IF a.ok THEN OrTail(a.tree, a.rest) ELSE Fail

\* variant: the parser keeps what it could parse and drops the rest
ParseCond_Lenient(c) ==
    IF c.kind = "text"
    THEN LET r == ParseOr(c.text)
         IN  IF r.ok
             THEN [ok |-> TRUE, cond |-> r.tree]
             ELSE [ok |-> TRUE, cond |-> ExprIdiom("x")]
    ELSE [ok |-> TRUE, cond |-> FoldTokens(c.tokens)]

\* the conversion of a condition input: free-form text goes through the
\* parser, which fails unless the whole text is one expression; a token
\* sequence is folded
ParseCond(c) ==
    IF c.kind = "text"
    THEN LET r == ParseOr(c.text)
         IN  IF r.ok /\ r.rest = <<>>
             THEN [ok |-> TRUE, cond |-> r.tree]
             ELSE [ok |-> FALSE, error |-> "ParseError"]
    ELSE [ok |-> TRUE, cond |-> FoldTokens(c.tokens)]

\* impl Into<ExtraCond>: the filter expression of an input that converts
IntoExtraCond(c) == ParseCond(c).cond

\* impl Into<ExtraOmit>, Into<ExtraSplit>, Into<ExtraGroup>, Into<ExtraFetch>
IntoExtraIdiom(i) == [idiom |-> i.text]

\* impl Into<ExtraOrder>
IntoExtraOrder(o) == [order |-> o.text, direction |-> (o.dir = "ASC")]

\* impl Into<ExtraWith>
IntoExtraWith(w) == [index |-> <<w.text>>]

\* impl Into<ExtraLimit>, Into<ExtraStart>, Into<ExtraVersion>,
\* Into<ExtraTimeout>: the number wrapped in its typed slot
IntoExtraNumber(n) == [number |-> n]

\* --------------------------------------------------------------- the state
VARIABLES
    builder,    \* Option<SelectBuilder>: None once the builder has been moved
    query,      \* Option<Query>: the handle returned by to_query
    executed,   \* per connection, the statements executed so far
    calls,      \* history: the calls made on this chain, in order
    outcome     \* Option: what the last fallible or inspecting operation
                \* returned to its caller

vars == <<builder, query, executed, calls, outcome>>

\* SelectStatement::default()
DefaultStatement ==
    [ expr     |-> <<>>,
      omit     |-> None,
      only     |-> FALSE,
      what     |-> <<>>,
      with     |-> None,
      cond     |-> None,
      split    |-> None,
      group    |-> None,
      order    |-> None,
      limit    |-> None,
      start    |-> None,
      fetch    |-> None,
      version  |-> None,
      timeout  |-> None,
      parallel |-> FALSE,
      explain  |-> None ]

\* variant: new starts from a statement with a clause already filled
new_Prefilled(db) ==
    [ statement    |-> [DefaultStatement EXCEPT !.only = TRUE],
      db           |-> db,
      what_state   |-> "NoWhat",
      fields_state |-> "NoFields",
      cond_state   |-> "NoCond" ]

\* SelectBuilder::new
new(db) ==
    [ statement    |-> DefaultStatement,
      db           |-> db,
      what_state   |-> "NoWhat",
      fields_state |-> "NoFields",
      cond_state   |-> "NoCond" ]

\* ------------------------------------------------------- the impl blocks
\* variant: the block is generic over all three markers
ImplNoWhat_AnyStage(self) ==
    self.what_state \in {"NoWhat", "FilledWhat"}

\* impl SelectBuilder<'r, Client, NoWhat, NoFields, NoCond>
ImplNoWhat(self) ==
    /\ self.what_state = "NoWhat"
    /\ self.fields_state = "NoFields"
    /\ self.cond_state = "NoCond"

\* variant: the block is for builders without a filter only
ImplFilledWhat_NoCondOnly(self) ==
    /\ self.what_state = "FilledWhat"
    /\ self.cond_state = "NoCond"

\* variant: the block is generic over the target marker too
ImplFilledWhat_AnyTarget(self) ==
    self.what_state \in {"NoWhat", "FilledWhat"}

\* impl<F, C> SelectBuilder<'r, Client, FilledWhat, F, C>
ImplFilledWhat(self) ==
    self.what_state = "FilledWhat"

\* impl SelectBuilder<'r, Client, FilledWhat, FilledFields, NoCond>
ImplNoCond(self) ==
    /\ self.what_state = "FilledWhat"
    /\ self.fields_state = "FilledFields"
    /\ self.cond_state = "NoCond"

\* variant: the block is generic over the projection marker too
ImplFilledFields_AnyFields(self) ==
    self.what_state = "FilledWhat"

\* impl<C> SelectBuilder<'r, Client, FilledWhat, FilledFields, C>
ImplFilledFields(self) ==
    /\ self.what_state = "FilledWhat"
    /\ self.fields_state = "FilledFields"

\* ------------------------------------------------------------ the methods
\* Each method destructures self into statement and db, changes the
\* statement and rebuilds the builder with the markers of its return type.

what(self, w) ==
    [ statement    |-> [self.statement EXCEPT !.what = IntoExtraValue(w)],
      db           |-> self.db,
      what_state   |-> "FilledWhat",
      fields_state |-> "NoFields",
      cond_state   |-> "NoCond" ]

\* variant: field returns the builder at NoCond
field_ResetsCond(self, f) ==
    [ statement    |-> [self.statement EXCEPT
                            !.expr = Append(@, IntoExtraField(f))],
      db           |-> self.db,
      what_state   |-> "FilledWhat",
      fields_state |-> "FilledFields",
      cond_state   |-> "NoCond" ]

field(self, f) ==
    [ statement    |-> [self.statement EXCEPT
                            !.expr = Append(@, IntoExtraField(f))],
      db           |-> self.db,
      what_state   |-> "FilledWhat",
      fields_state |-> "FilledFields",
      cond_state   |-> self.cond_state ]

\* variant: condition starts from a fresh statement
condition_FreshStatement(self, c) ==
    [ statement    |-> [DefaultStatement EXCEPT
                            !.expr = self.statement.expr,
                            !.cond = Some(IntoExtraCond(c))],
      db           |-> self.db,
      what_state   |-> "FilledWhat",
      fields_state |-> "FilledFields",
      cond_state   |-> "FilledCond" ]

condition(self, c) ==
    [ statement    |-> [self.statement EXCEPT
                            !.cond = Some(IntoExtraCond(c))],
      db           |-> self.db,
      what_state   |-> "FilledWhat",
      fields_state |-> "FilledFields",
      cond_state   |-> "FilledCond" ]

\* variant: the clause is overwritten with the new element alone
Push_Overwrites(opt, x) ==
    Some(<<x>>)

\* opt.unwrap_or(Default::default()), push(x), Some(..)
Push(opt, x) ==
    Some(Append(IF opt = None THEN <<>> ELSE opt[1], x))

\* variant: the returned builder is at the markers of a builder that has
\* its target only
Rebuild_ResetsMarkers(self, statement) ==
    [ statement    |-> statement,
      db           |-> self.db,
      what_state   |-> "FilledWhat",
      fields_state |-> "NoFields",
      cond_state   |-> "NoCond" ]

\* the builder returned by a method whose return type is Self
Rebuild(self, statement) ==
    [ statement    |-> statement,
      db           |-> self.db,
      what_state   |-> self.what_state,
      fields_state |-> self.fields_state,
      cond_state   |-> self.cond_state ]

\* variant: omit also clears the filter of the statement
omit_DropsFilter(self, o) ==
    Rebuild(self, [self.statement EXCEPT !.omit = Push(@, IntoExtraIdiom(o)),
                                         !.cond = None])

omit(self, o) ==
    Rebuild(self, [self.statement EXCEPT !.omit = Push(@, IntoExtraIdiom(o))])

\* variant: the index names of the new hint are added to those already held
with_Accumulates(self, w) ==
    Rebuild(self, [self.statement EXCEPT
        !.with = IF @ = None THEN Some(IntoExtraWith(w))
                 ELSE Some([index |-> @[1].index \o IntoExtraWith(w).index])])

\* statement.with = Some(with.into().0)
with(self, w) ==
    Rebuild(self, [self.statement EXCEPT !.with = Some(IntoExtraWith(w))])

split(self, s) ==
    Rebuild(self, [self.statement EXCEPT !.split = Push(@, IntoExtraIdiom(s))])

group(self, g) ==
    Rebuild(self, [self.statement EXCEPT !.group = Push(@, IntoExtraIdiom(g))])

order(self, o) ==
    Rebuild(self, [self.statement EXCEPT !.order = Push(@, IntoExtraOrder(o))])

\* variant: a limit already present is kept
limit_KeepsFirst(self, l) ==
    IF self.statement.limit # <<>>
    THEN self
    ELSE [self EXCEPT !.statement.limit = <<[number |-> l]>>]

limit(self, l) ==
    Rebuild(self, [self.statement EXCEPT !.limit = Some(IntoExtraNumber(l))])

\* variant: start assigns the limit slot
start_WritesLimit(self, s) ==
    [self EXCEPT !.statement.limit = <<[number |-> s]>>]

start(self, s) ==
    Rebuild(self, [self.statement EXCEPT !.start = Some(IntoExtraNumber(s))])

fetch(self, f) ==
    Rebuild(self, [self.statement EXCEPT !.fetch = Push(@, IntoExtraIdiom(f))])

version(self, v) ==
    Rebuild(self, [self.statement EXCEPT !.version = Some(IntoExtraNumber(v))])

timeout(self, t) ==
    Rebuild(self, [self.statement EXCEPT !.timeout = Some(IntoExtraNumber(t))])

\* variant: a second only call switches the flag off again
only_Toggles(self) ==
    Rebuild(self, [self.statement EXCEPT !.only = ~@])

\* statement.only = true
only(self) ==
    Rebuild(self, [self.statement EXCEPT !.only = TRUE])

parallel(self) ==
    Rebuild(self, [self.statement EXCEPT !.parallel = TRUE])

\* variant: a second explain call switches the flag off again
explain_Toggles(self) ==
    [self EXCEPT !.statement.explain = IF @ = <<>> THEN <<TRUE>> ELSE <<>>]

\* Explain::default() with .0 = true
explain(self) ==
    Rebuild(self, [self.statement EXCEPT !.explain = Some(TRUE)])

\* variant: a default statement is submitted
to_query_Default(self) ==
    [ client |-> self.db, query |-> <<DefaultStatement>> ]

\* self.db.query(self.statement): a handle holding the connection and the
\* statement; nothing runs until the caller awaits it
to_query(self) ==
    [ client |-> self.db, query |-> <<self.statement>> ]

\* --------------------------------------------------------------- behaviour
Init ==
    \E db \in Connections :
        /\ builder = Some(new(db))
        /\ query = None
        /\ executed = [c \in Connections |-> <<>>]
        /\ calls = << [op |-> "new", arg |-> db] >>
        /\ outcome = None

\* one method call on the chain: the old builder is moved into the call and
\* the returned one takes its place
Call(op, arg, next) ==
    /\ Len(calls) < MaxCalls
    /\ builder' = Some(next)
    /\ calls' = Append(calls, [op |-> op, arg |-> arg])
    /\ UNCHANGED <<query, executed, outcome>>

What ==
    /\ builder # None
    /\ ImplNoWhat(builder[1])
    /\ \E w \in WhatArgs : Call("what", w, what(builder[1], w))

Field ==
    /\ builder # None
    /\ ImplFilledWhat(builder[1])
    /\ \E f \in FieldArgs : Call("field", f, field(builder[1], f))

Condition ==
    /\ builder # None
    /\ ImplNoCond(builder[1])
    /\ \E c \in CondArgs : Call("condition", c, condition(builder[1], c))

Omit ==
    /\ builder # None
    /\ ImplFilledFields(builder[1])
    /\ \E o \in IdiomArgs : Call("omit", o, omit(builder[1], o))

With ==
    /\ builder # None
    /\ ImplFilledFields(builder[1])
    /\ \E w \in WithArgs : Call("with", w, with(builder[1], w))

Split ==
    /\ builder # None
    /\ ImplFilledFields(builder[1])
    /\ \E s \in IdiomArgs : Call("split", s, split(builder[1], s))

Group ==
    /\ builder # None
    /\ ImplFilledFields(builder[1])
    /\ \E g \in IdiomArgs : Call("group", g, group(builder[1], g))

Order ==
    /\ builder # None
    /\ ImplFilledFields(builder[1])
    /\ \E o \in OrderArgs : Call("order", o, order(builder[1], o))

Limit ==
    /\ builder # None
    /\ ImplFilledFields(builder[1])
    /\ \E l \in Nums : Call("limit", l, limit(builder[1], l))

Start ==
    /\ builder # None
    /\ ImplFilledFields(builder[1])
    /\ \E s \in Nums : Call("start", s, start(builder[1], s))

Fetch ==
    /\ builder # None
    /\ ImplFilledFields(builder[1])
    /\ \E f \in IdiomArgs : Call("fetch", f, fetch(builder[1], f))

Version ==
    /\ builder # None
    /\ ImplFilledFields(builder[1])
    /\ \E v \in Nums : Call("version", v, version(builder[1], v))

Timeout ==
    /\ builder # None
    /\ ImplFilledFields(builder[1])
    /\ \E t \in Nums : Call("timeout", t, timeout(builder[1], t))

Only ==
    /\ builder # None
    /\ ImplFilledFields(builder[1])
    /\ Call("only", None, only(builder[1]))

Parallel ==
    /\ builder # None
    /\ ImplFilledFields(builder[1])
    /\ Call("parallel", None, parallel(builder[1]))

ExplainCall ==
    /\ builder # None
    /\ ImplFilledFields(builder[1])
    /\ Call("explain", None, explain(builder[1]))

\* variant: to_query borrows the builder and leaves it with the caller
ToQuery_KeepsBuilder ==
    /\ builder # None
    /\ ImplFilledFields(builder[1])
    /\ Len(calls) < MaxCalls
    /\ query' = Some(to_query(builder[1]))
    /\ calls' = Append(calls, [op |-> "to_query", arg |-> None])
    /\ UNCHANGED <<builder, executed, outcome>>

\* variant: to_query runs the statement at once
ToQuery_Eager ==
    /\ builder # <<>>
    /\ builder[1].what_state = "FilledWhat"
    /\ builder[1].fields_state = "FilledFields"
    /\ builder' = <<>>
    /\ query' = << [client |-> builder[1].db,
                    query |-> <<builder[1].statement>>] >>
    /\ calls' = Append(calls, [op |-> "to_query", arg |-> <<>>])
    /\ executed' = [executed EXCEPT
                        ![builder[1].db] = Append(@, builder[1].statement)]
    /\ UNCHANGED outcome

\* to_query moves the builder into the call and returns the handle
ToQuery ==
    /\ builder # None
    /\ ImplFilledFields(builder[1])
    /\ builder' = None
    /\ query' = Some(to_query(builder[1]))
    /\ calls' = Append(calls, [op |-> "to_query", arg |-> None])
    /\ UNCHANGED <<executed, outcome>>

\* the caller awaits the handle: the execution layer runs its statements on
\* the handle's connection
Await ==
    /\ query # None
    /\ executed' = [executed EXCEPT ![query[1].client] = @ \o query[1].query]
    /\ query' = None
    /\ UNCHANGED <<builder, calls, outcome>>

Next ==
    \/ What
    \/ Field
    \/ Condition
    \/ Omit
    \/ With
    \/ Split
    \/ Group
    \/ Order
    \/ Limit
    \/ Start
    \/ Fetch
    \/ Version
    \/ Timeout
    \/ Only
    \/ Parallel
    \/ ExplainCall
    \/ ToQuery
    \/ Await

Spec == Init /\ [][Next]_vars

\* ------------------------------------------------- reading the history
\* the positions of the calls to method op in the call log
Indices(op) == {i \in 1..Len(calls) : calls[i].op = op}

IsOp(c, op) == c.op = op

\* the arguments passed to method op, in call order
ArgsOf(op) ==
    LET sel == SelectSeq(calls, LAMBDA c : IsOp(c, op))
    IN  [i \in 1..Len(sel) |-> sel[i].arg]

\* a step that is a call of method op
Called(op) ==
    /\ Len(calls') = Len(calls) + 1
    /\ calls'[Len(calls')].op = op

\* the statement of the chain: held by the builder, or by the handle once
\* to_query has moved it there
Statement ==
    IF builder # None THEN <<builder[1].statement>>
    ELSE IF query # None THEN query[1].query
    ELSE <<>>

Stage(b) == <<b.what_state, b.fields_state, b.cond_state>>

\* the content of an Option<list>: the empty list when absent
ListOf(opt) == IF opt = None THEN <<>> ELSE opt[1]

\* ----------------------------------------------------------------- claims

\* C1: what is called at most once on a chain and, once any call has been
\* made, exactly once and as the first call; a what call is taken only at
\* stage (NoWhat, NoFields, NoCond) and leads to (FilledWhat, NoFields,
\* NoCond); no call takes a builder from FilledWhat back to NoWhat.
C1_WhatOnceAndFirst ==
    /\ [](Len(calls) >= 2 => Indices("what") = {2})
    /\ [](Cardinality(Indices("what")) <= 1)
    /\ [][Called("what") =>
            /\ builder # None /\ builder' # None
            /\ Stage(builder[1]) = <<"NoWhat", "NoFields", "NoCond">>
            /\ Stage(builder'[1]) = <<"FilledWhat", "NoFields", "NoCond">>]_vars
    /\ [][(builder # None /\ builder' # None
            /\ builder[1].what_state = "FilledWhat")
            => builder'[1].what_state = "FilledWhat"]_vars

C1_Witness ==
    /\ Len(calls) >= 4
    /\ calls[2].op = "what"
    /\ builder # None
    /\ builder[1].what_state = "FilledWhat"

\* C2: whenever a field call is enabled the target is already set: the
\* builder is at FilledWhat and a what call precedes in the call log.
C2_FieldNeedsTarget ==
    ENABLED Field =>
        /\ builder # None
        /\ builder[1].what_state = "FilledWhat"
        /\ builder[1].statement.what # <<>>
        /\ Indices("what") # {}

C2_Witness ==
    /\ ENABLED Field
    /\ Indices("field") # {}

\* the modifier calls of impl SelectBuilder<FilledWhat, FilledFields, C>
Modifier ==
    \/ Omit \/ With \/ Split \/ Group \/ Order \/ Limit \/ Start \/ Fetch
    \/ Version \/ Timeout \/ Only \/ Parallel \/ ExplainCall

\* C3: a modifier call or to_query is enabled only at a stage with
\* FilledWhat and FilledFields, and a chain on which to_query has been
\* called has at least one earlier field call.
C3_ModifiersNeedProjection ==
    /\ (ENABLED Modifier \/ ENABLED ToQuery) =>
            /\ builder # None
            /\ builder[1].what_state = "FilledWhat"
            /\ builder[1].fields_state = "FilledFields"
    /\ \A i \in Indices("to_query") :
            \E j \in Indices("field") : j < i

C3_Witness ==
    /\ Indices("to_query") # {}
    /\ \E op \in {"omit", "limit", "only", "explain"} : Indices(op) # {}

\* C4: condition is called at most once on a chain; it is enabled only at
\* (FilledWhat, FilledFields, NoCond) and leads to FilledCond; no call takes
\* a builder from FilledCond back to NoCond, and a filter once attached is
\* the same in every later statement of the chain.
C4_ConditionAtMostOnce ==
    /\ [](Cardinality(Indices("condition")) <= 1)
    /\ [](ENABLED Condition =>
            /\ builder # None
            /\ Stage(builder[1]) = <<"FilledWhat", "FilledFields", "NoCond">>)
    /\ [][Called("condition") =>
            /\ builder' # None
            /\ builder'[1].cond_state = "FilledCond"
            /\ builder'[1].statement.cond # None]_vars
    /\ [][(builder # None /\ builder' # None
            /\ builder[1].cond_state = "FilledCond")
            => builder'[1].cond_state = "FilledCond"]_vars
    /\ [][(Statement # None /\ Statement' # None
            /\ Statement[1].cond # None)
            => Statement'[1].cond = Statement[1].cond]_vars

C4_Witness ==
    /\ \E i \in Indices("condition") : i < Len(calls)
    /\ builder # None
    /\ builder[1].cond_state = "FilledCond"

\* the list l converted element by element
Converted(conv(_), l) == [i \in 1..Len(l) |-> conv(l[i])]

\* C5: the projection, omit, split, group, order and fetch lists of the
\* statement are the converted arguments of the field, omit, split, group,
\* order and fetch calls, one element per call, in call order, duplicates
\* kept.
C5_ListsAccumulateInCallOrder ==
    Statement # None =>
        LET st == Statement[1] IN
        /\ st.expr = Converted(IntoExtraField, ArgsOf("field"))
        /\ ListOf(st.omit) = Converted(IntoExtraIdiom, ArgsOf("omit"))
        /\ ListOf(st.split) = Converted(IntoExtraIdiom, ArgsOf("split"))
        /\ ListOf(st.group) = Converted(IntoExtraIdiom, ArgsOf("group"))
        /\ ListOf(st.order) = Converted(IntoExtraOrder, ArgsOf("order"))
        /\ ListOf(st.fetch) = Converted(IntoExtraIdiom, ArgsOf("fetch"))

\* two calls of one list method, the second repeating or differing from the
\* first
C5_Witness ==
    /\ Statement # None
    /\ \E opt \in {Statement[1].omit, Statement[1].order} :
            /\ opt # None
            /\ Len(opt[1]) = 2
            /\ opt[1][1] # opt[1][2]

\* the argument of the most recent call to method op, when there is one
LastArg(op) ==
    LET args == ArgsOf(op)
    IN  IF args = <<>> THEN None ELSE Some(IntoExtraNumber(args[Len(args)]))

\* C6: the limit, start, version and timeout slots of the statement each
\* hold the converted argument of the most recent call to their method, and
\* are absent when the method was never called.
C6_SlotsLastWriteWins ==
    Statement # None =>
        LET st == Statement[1] IN
        /\ st.limit = LastArg("limit")
        /\ st.start = LastArg("start")
        /\ st.version = LastArg("version")
        /\ st.timeout = LastArg("timeout")

\* one of the four methods called twice with different arguments
C6_Witness ==
    /\ Statement # None
    /\ \E op \in {"limit", "start", "version", "timeout"} :
            /\ Len(ArgsOf(op)) = 2
            /\ ArgsOf(op)[1] # ArgsOf(op)[2]

\* C7: once explain has been called, the explain flag of the statement is
\* present and true in every later state of the chain.
C7_ExplainStaysTrue ==
    (Indices("explain") # {} /\ Statement # None)
        => Statement[1].explain = Some(TRUE)

\* explain called, followed by at least one further call
C7_Witness ==
    /\ Statement # None
    /\ \E i \in Indices("explain") : i < Len(calls)

\* C8: after what(t) the target of the statement is the conversion of t, a
\* single target, in every later state of the chain, the handle returned by
\* to_query included.
C8_TargetKept ==
    \A i \in Indices("what") :
        Statement # None =>
            /\ Statement[1].what = IntoExtraValue(calls[i].arg)
            /\ Len(Statement[1].what) = 1

\* the statement handed over by to_query after what, field and condition
C8_Witness ==
    /\ query # None
    /\ Indices("what") # {}
    /\ Indices("condition") # {}

\* C9: to_query hands over exactly the statement the builder held, on the
\* connection the builder held, and that connection is the one passed to
\* new() in every state of the chain.
C9_ToQuerySubmitsAccumulated ==
    /\ [][Called("to_query") =>
            /\ builder # None
            /\ query' = Some([client |-> builder[1].db,
                              query  |-> <<builder[1].statement>>])]_vars
    /\ [](builder # None => builder[1].db = calls[1].arg)
    /\ [](query # None => query[1].client = calls[1].arg)
    /\ [][(builder # None /\ builder' # None)
            => builder'[1].db = builder[1].db]_vars

\* a handle holding a statement with a filter and a modifier clause
C9_Witness ==
    /\ query # None
    /\ query[1].query[1].cond # None
    /\ \/ query[1].query[1].limit # None
       \/ query[1].query[1].omit # None

\* C10: no builder call and no to_query call executes anything: as long as
\* the handle has not been awaited nothing has run on any connection, and a
\* step that is a call leaves the executed statements unchanged.
C10_NothingExecutedByBuilding ==
    /\ []((builder # None \/ query # None)
            => \A c \in Connections : executed[c] = <<>>)
    /\ [][Len(calls') > Len(calls) => executed' = executed]_vars

\* to_query has returned its handle and nothing has run
C10_Witness ==
    /\ query # None
    /\ \A c \in Connections : executed[c] = <<>>

\* ====================================================================
\* Several builders against one shared connection
\* ====================================================================
\* In SpecMulti the variables builder, query and calls hold one entry per
\* builder: builder[b], query[b], calls[b].

\* number of builders created against the shared connection
NumBuilders == 2
\* longest call log of one builder: the `new` entry plus MaxEach - 1 calls
MaxEach == 4

Builders == 1..NumBuilders

\* the impl block that offers method op
Offered(self, op) ==
    CASE op = "what"      -> ImplNoWhat(self)
      [] op = "field"     -> ImplFilledWhat(self)
      [] op = "condition" -> ImplNoCond(self)
      [] OTHER            -> ImplFilledFields(self)

\* the builder returned by the call c = [op, arg] on self
Apply(self, c) ==
    CASE c.op = "what"      -> what(self, c.arg)
      [] c.op = "field"     -> field(self, c.arg)
      [] c.op = "condition" -> condition(self, c.arg)
      [] c.op = "omit"      -> omit(self, c.arg)
      [] c.op = "with"      -> with(self, c.arg)
      [] c.op = "split"     -> split(self, c.arg)
      [] c.op = "group"     -> group(self, c.arg)
      [] c.op = "order"     -> order(self, c.arg)
      [] c.op = "limit"     -> limit(self, c.arg)
      [] c.op = "start"     -> start(self, c.arg)
      [] c.op = "fetch"     -> fetch(self, c.arg)
      [] c.op = "version"   -> version(self, c.arg)
      [] c.op = "timeout"   -> timeout(self, c.arg)
      [] c.op = "only"      -> only(self)
      [] c.op = "parallel"  -> parallel(self)
      [] c.op = "explain"   -> explain(self)

\* the calls the builders of SpecMulti draw from: what, field, condition, a
\* slot modifier and a flag modifier, one argument each; the builders are
\* told apart by which of these calls each has made
MultiCalls ==
    [op : {"what"}, arg : [kind : {"text"}, text : {"t"}]]
        \cup [op : {"field"}, arg : [kind : {"text"}, text : {"a"}]]
        \cup [op : {"condition"}, arg : [kind : {"text"}, text : {<<"a">>}]]
        \cup [op : {"limit"}, arg : {1}]
        \cup [op : {"explain"}, arg : {None}]

MInit ==
    \E db \in Connections :
        /\ builder = [b \in Builders |-> Some(new(db))]
        /\ query = [b \in Builders |-> None]
        /\ executed = [c \in Connections |-> <<>>]
        /\ calls = [b \in Builders |-> << [op |-> "new", arg |-> db] >>]
        /\ outcome = None

\* variant: the statement is shared by the builders of a connection
MCall_SharedStatement(b) ==
    \E c \in MultiCalls :
        /\ builder[b] # <<>>
        /\ Len(calls[b]) < MaxEach
        /\ Offered(builder[b][1], c.op)
        /\ builder' = [x \in Builders |->
                        IF x = b \/ builder[x] # <<>>
                        THEN << Apply(builder[b][1], c) >>
                        ELSE <<>>]
        /\ calls' = [calls EXCEPT ![b] = Append(@, c)]
        /\ UNCHANGED <<query, executed, outcome>>

\* one method call on builder b: b is moved into the call and the returned
\* builder takes its place; each builder owns its statement
MCall(b) ==
    \E c \in MultiCalls :
        /\ builder[b] # None
        /\ Len(calls[b]) < MaxEach
        /\ Offered(builder[b][1], c.op)
        /\ builder' = [builder EXCEPT ![b] = Some(Apply(builder[b][1], c))]
        /\ calls' = [calls EXCEPT ![b] = Append(@, c)]
        /\ UNCHANGED <<query, executed, outcome>>

MToQuery(b) ==
    /\ builder[b] # None
    /\ ImplFilledFields(builder[b][1])
    /\ builder' = [builder EXCEPT ![b] = None]
    /\ query' = [query EXCEPT ![b] = Some(to_query(builder[b][1]))]
    /\ calls' = [calls EXCEPT ![b] = Append(@, [op |-> "to_query", arg |-> None])]
    /\ UNCHANGED <<executed, outcome>>

MAwait(b) ==
    /\ query[b] # None
    /\ executed' = [executed EXCEPT ![query[b][1].client] = @ \o query[b][1].query]
    /\ query' = [query EXCEPT ![b] = None]
    /\ UNCHANGED <<builder, calls, outcome>>

NextMulti ==
    \E b \in Builders :
        \/ MCall(b)
        \/ MToQuery(b)
        \/ MAwait(b)

SpecMulti == MInit /\ [][NextMulti]_vars

\* the builder a call log produces when its calls run alone, in order
RECURSIVE Replay(_)
Replay(log) ==
    IF Len(log) = 1
    THEN new(log[1].arg)
    ELSE Apply(Replay(SubSeq(log, 1, Len(log) - 1)), log[Len(log)])

\* the builder-call part of a log: without a closing to_query
BuilderCalls(log) ==
    IF log[Len(log)].op = "to_query"
    THEN SubSeq(log, 1, Len(log) - 1)
    ELSE log

\* C11: with several builders on one shared connection, advanced in any
\* interleaving, each builder holds (and to_query hands over) the builder
\* its own calls produce when run alone; a step of one builder leaves every
\* other builder and handle as it was, and no builder call or to_query
\* changes what has run on the connection or the connection a builder holds.
C11_BuildersIndependent ==
    /\ [](\A b \in Builders :
            /\ builder[b] # None => builder[b][1] = Replay(calls[b])
            /\ query[b] # None =>
                    query[b][1] = to_query(Replay(BuilderCalls(calls[b])))
            /\ builder[b] # None => builder[b][1].db = calls[b][1].arg)
    /\ [][\A b \in Builders :
            calls'[b] = calls[b] =>
                /\ builder'[b] = builder[b]
                /\ (query'[b] = query[b] \/ query'[b] = None)]_vars
    /\ [][(\E b \in Builders : calls'[b] # calls[b])
            => executed' = executed]_vars

\* two builders on the same connection that hold different statements, each
\* with at least two calls made
C11_Witness ==
    /\ \A b \in Builders : builder[b] # None /\ Len(calls[b]) >= 3
    /\ \E b1, b2 \in Builders :
            /\ builder[b1][1].db = builder[b2][1].db
            /\ builder[b1][1].statement # builder[b2][1].statement

\* ====================================================================
\* Direct access to the public statement field
\* ====================================================================
\* `pub statement: SelectStatement`: whoever holds a builder can assign the
\* statement's fields and can move the statement out, at any stage.

\* the assignments explored: clearing the filter, clearing the target,
\* setting a limit
DirectWrites ==
    { [slot |-> "cond",  value |-> None],
      [slot |-> "what",  value |-> <<>>],
      [slot |-> "limit", value |-> Some(IntoExtraNumber(1))] }

\* builder.statement.<slot> = value
WriteStatement ==
    /\ builder # None
    /\ Len(calls) < MaxCalls
    /\ \E w \in DirectWrites :
        /\ builder' = Some([builder[1] EXCEPT !.statement[w.slot] = w.value])
        /\ calls' = Append(calls, [op |-> "statement=", arg |-> w])
    /\ UNCHANGED <<query, executed, outcome>>

\* variant: the conversion rejects a statement without projection
into_query_RequiresProjection(statement) ==
    IF statement.expr = <<>>
    THEN [ok |-> FALSE, statements |-> <<>>]
    ELSE [ok |-> TRUE, statements |-> <<statement>>]

\* statement.into_query(): the execution layer's conversion of a statement,
\* Ok with the one statement
into_query(statement) ==
    [ok |-> TRUE, statements |-> <<statement>>]

\* builder.statement.into_query(): the statement is moved out of the
\* builder, which cannot be used afterwards
StatementIntoQuery ==
    /\ builder # None
    /\ builder' = None
    /\ outcome' = Some(into_query(builder[1].statement))
    /\ calls' = Append(calls, [op |-> "statement.into_query", arg |-> None])
    /\ UNCHANGED <<query, executed>>

NextPub ==
    \/ Next
    \/ WriteStatement
    \/ StatementIntoQuery

SpecPub == Init /\ [][NextPub]_vars

\* the methods of SelectBuilder that return a builder
MethodNames ==
    {"what", "field", "condition", "omit", "with", "split", "group", "order",
     "limit", "start", "fetch", "version", "timeout", "only", "parallel",
     "explain"}

\* the statement a builder holds at construction
EmptyStatement(st) ==
    /\ st.what = <<>> /\ st.expr = <<>> /\ st.cond = <<>>
    /\ st.omit = <<>> /\ st.with = <<>> /\ st.split = <<>>
    /\ st.group = <<>> /\ st.order = <<>> /\ st.limit = <<>>
    /\ st.start = <<>> /\ st.fetch = <<>> /\ st.version = <<>>
    /\ st.timeout = <<>> /\ st.explain = <<>>
    /\ st.only = FALSE /\ st.parallel = FALSE

\* C12 as stated: the statement is empty at construction, changes only in
\* steps that are builder method calls, and is never seen from outside
\* before to_query.
C12_OnlyMethodsTouchStatement ==
    /\ []((Len(calls) = 1 /\ builder # None)
            => EmptyStatement(builder[1].statement))
    /\ [][(builder # None /\ builder' # None
            /\ builder'[1].statement # builder[1].statement)
            => \E op \in MethodNames : Called(op)]_vars
    /\ [](outcome = None)

\* C12 amended: the statement is empty at construction and afterwards
\* changes only in a builder method call or in a direct assignment to the
\* public statement field by the holder of the builder; the holder can also
\* move the statement out at any stage, and what comes out is the statement
\* the builder held.
C12_MethodsOrPublicField ==
    /\ []((Len(calls) = 1 /\ builder # None)
            => EmptyStatement(builder[1].statement))
    /\ [][(builder # None /\ builder' # None
            /\ builder'[1].statement # builder[1].statement)
            => \E op \in MethodNames \cup {"statement="} : Called(op)]_vars
    /\ [][(outcome' # outcome)
            => /\ Called("statement.into_query")
               /\ builder # None
               /\ outcome'[1].statements = <<builder[1].statement>>]_vars

\* a chain with a method call, a direct assignment that removed the target
\* and the statement moved out at an intermediate stage
C12_Witness ==
    /\ Indices("statement=") # {}
    /\ Indices("what") # {}
    /\ outcome # None
    /\ outcome[1].statements[1].what = <<>>

\* ====================================================================
\* The Table trait (src/surrealdb_extra/src/table/mod.rs)
\* ====================================================================
\* const TABLE_NAME of the implementing type
TABLE_NAME == "my_table"

\* the Option<String> identifiers passed to the factory
Ids == {None, Some("1"), Some("2")}

\* db.select_builder() of the StatementBuilder trait: a fresh builder bound
\* to db
StatementBuilder_select_builder(db) ==
    new(db)

\* variant: the factory selects the whole table whatever the id
select_builder_IgnoresId(db, id) ==
    what(StatementBuilder_select_builder(db),
         [kind |-> "text", text |-> TABLE_NAME])

\* Table::select_builder
select_builder(db, id) ==
    IF id # None
    THEN what(StatementBuilder_select_builder(db),
              [kind |-> "thing", tb |-> TABLE_NAME, id |-> id[1]])
    ELSE what(StatementBuilder_select_builder(db),
              [kind |-> "text", text |-> TABLE_NAME])

\* the state after the factory has returned; the log holds the factory call
\* and the what call the factory made
InitFactory ==
    \E db \in Connections, id \in Ids :
        /\ builder = Some(select_builder(db, id))
        /\ query = None
        /\ executed = [c \in Connections |-> <<>>]
        /\ calls = << [op |-> "select_builder", arg |-> [db |-> db, id |-> id]],
                      [op |-> "what",
                       arg |-> IF id # None
                               THEN [kind |-> "thing", tb |-> TABLE_NAME,
                                     id |-> id[1]]
                               ELSE [kind |-> "text", text |-> TABLE_NAME]] >>
        /\ outcome = None

\* the calls offered on the factory's builder: every method but what
NextFactory ==
    \/ Field
    \/ Condition
    \/ Omit
    \/ With
    \/ Split
    \/ Group
    \/ Order
    \/ Limit
    \/ Start
    \/ Fetch
    \/ Version
    \/ Timeout
    \/ Only
    \/ Parallel
    \/ ExplainCall
    \/ ToQuery
    \/ Await

SpecFactory == InitFactory /\ [][NextFactory]_vars

\* C13: the builder returned by Table::select_builder(db, id) is at stage
\* (FilledWhat, NoFields, NoCond); its target is the one record
\* (TABLE_NAME, id) when id is present and the table TABLE_NAME when absent;
\* the rest of the statement is empty; to_query is not offered on it, field
\* is, and every to_query on the chain comes after a field call.
C13_FactoryPrefillsTarget ==
    /\ (Len(calls) = 2) =>
        /\ builder # None
        /\ Stage(builder[1]) = <<"FilledWhat", "NoFields", "NoCond">>
        /\ builder[1].db = calls[1].arg.db
        /\ builder[1].statement.what =
            IF calls[1].arg.id = None
            THEN << [value |-> "Table", tb |-> TABLE_NAME] >>
            ELSE << [value |-> "Thing", tb |-> TABLE_NAME,
                     id |-> calls[1].arg.id[1]] >>
        /\ EmptyStatement([builder[1].statement EXCEPT !.what = <<>>])
        /\ ~ ENABLED ToQuery
        /\ ENABLED Field
    /\ \A i \in Indices("to_query") : \E j \in Indices("field") : j < i

\* a factory builder for a record, taken through field to to_query
C13_Witness ==
    /\ calls[1].op = "select_builder"
    /\ calls[1].arg.id # None
    /\ query # None
    /\ query[1].query[1].what[1].value = "Thing"

\* --------------------------------------------- update and update_builder
\* In SpecTable the log holds the Table operations made on records; builder
\* holds the UpdateBuilder returned by update_builder, outcome the Result
\* returned by update.

\* longest log of Table operations explored
MaxTableOps == 2

\* record identifiers: Thing { tb, id }
Things ==
    [tb : {TABLE_NAME, "other"}, id : {"1", "2"}]

\* the values of the implementing type: id: Option<RecordId> and one more
\* field
Records ==
    [id : {None} \cup {Some(t) : t \in Things}, name : {"n"}]

\* self.get_id()
get_id(self) == self.id

\* Id::to_raw() of a text identifier
to_raw(id) == id

\* what the execution layer can answer to a submitted update
DbAnswers == {"Ok(Some)", "Ok(None)", "Err(Db)"}

\* Table::update: the identifier is unwrapped first, `?` returning
\* Err(IdEmpty) before anything is submitted; otherwise the update of
\* (TABLE_NAME, id) merged with self is submitted and awaited.
\* Yields the statement submitted (if any) and the possible results.
update(self) ==
    IF get_id(self) = None
    THEN [submitted |-> None, results |-> {"Err(IdEmpty)"}]
    ELSE [submitted |->
            Some([statement |-> "UPDATE",
                  what      |-> << [value |-> "Thing", tb |-> TABLE_NAME,
                                    id |-> to_raw(get_id(self)[1].id)] >>,
                  merge     |-> self]),
          results |-> DbAnswers]

\* db.update_builder().what(..).content(..) of the UpdateBuilder: a builder
\* at (FilledWhat, FilledData, NoCond) holding target and content
UpdateBuilder_what_content(db, w, data) ==
    [ statement  |-> [statement |-> "UPDATE",
                      what      |-> IntoExtraValue(w),
                      content   |-> data],
      db         |-> db,
      what_state |-> "FilledWhat",
      data_state |-> "FilledData",
      cond_state |-> "NoCond" ]

\* Table::update_builder
update_builder(self, db) ==
    UpdateBuilder_what_content(db, [kind |-> "text", text |-> TABLE_NAME], self)

InitTable ==
    \E db \in Connections :
        /\ builder = None
        /\ query = None
        /\ executed = [c \in Connections |-> <<>>]
        /\ calls = << [op |-> "connect", arg |-> db] >>
        /\ outcome = None

\* record.update(&db).await
Update ==
    /\ Len(calls) <= MaxTableOps
    /\ \E self \in Records :
        LET db == calls[1].arg
            u  == update(self)
        IN  /\ executed' = [executed EXCEPT ![db] = @ \o u.submitted]
            /\ \E r \in u.results : outcome' = Some(r)
            /\ calls' = Append(calls, [op |-> "update", arg |-> self])
    /\ UNCHANGED <<builder, query>>

\* record.update_builder(&db)
UpdateBuilderCall ==
    /\ Len(calls) <= MaxTableOps
    /\ \E self \in Records :
        /\ builder' = Some(update_builder(self, calls[1].arg))
        /\ calls' = Append(calls, [op |-> "update_builder", arg |-> self])
    /\ UNCHANGED <<query, executed, outcome>>

NextTable ==
    \/ Update
    \/ UpdateBuilderCall

SpecTable == InitTable /\ [][NextTable]_vars

\* the target of the update-style operation made in this step
UpdateTarget ==
    IF Called("update_builder")
    THEN builder'[1].statement.what
    ELSE LET ex == executed'[calls[1].arg]
         IN  IF Len(ex) > Len(executed[calls[1].arg])
             THEN ex[Len(ex)].what
             ELSE <<>>

\* C14: an update-style operation (update, update_builder) on a record
\* without identifier returns Err(IdEmpty) and submits nothing; on a record
\* with an identifier its target is the one record (TABLE_NAME, identifier).
C14_UpdateNeedsId ==
    [][(Called("update") \/ Called("update_builder")) =>
        LET self == calls'[Len(calls')].arg IN
        IF self.id = None
        THEN /\ outcome' = Some("Err(IdEmpty)")
             /\ executed' = executed
             /\ builder' = builder
        ELSE UpdateTarget = << [value |-> "Thing", tb |-> TABLE_NAME,
                                id |-> self.id[1].id] >>]_vars

\* the same for Table::update alone
C14_UpdateAloneNeedsId ==
    [][Called("update") =>
        LET self == calls'[Len(calls')].arg IN
        IF self.id = None
        THEN /\ outcome' = Some("Err(IdEmpty)")
             /\ executed' = executed
        ELSE UpdateTarget = << [value |-> "Thing", tb |-> TABLE_NAME,
                                id |-> self.id[1].id] >>]_vars

\* ====================================================================
\* Conditions: token sequences and free-form text
\* ====================================================================
\* most operands in a structured token sequence
MaxOperands == 3
\* most lexemes in a free-form text
MaxLex == 5

\* operand tokens: bare text, comparison, unary
SimpleTokens ==
    { [t |-> "text", v |-> "x"],
      [t |-> "text", v |-> "y"],
      [t |-> "cmp", l |-> "x", o |-> "=", r |-> "y"],
      [t |-> "unary", o |-> "!", v |-> "y"] }

\* separator tokens
OpTokens == { [t |-> "op", o |-> "AND"], [t |-> "op", o |-> "OR"] }

\* the sequences operand (operator operand)* with exactly n operands from S
RECURSIVE TokenSeqsOf(_, _)
TokenSeqsOf(S, n) ==
    IF n = 1
    THEN {<<a>> : a \in S}
    ELSE {q \o <<o, a>> : q \in TokenSeqsOf(S, n - 1), o \in OpTokens, a \in S}

\* nested sequence tokens
SubTokens ==
    { [t |-> "sub", seq |-> q] :
        q \in TokenSeqsOf({[t |-> "text", v |-> "x"]}, 1)
                \cup TokenSeqsOf({[t |-> "text", v |-> "x"]}, 2) }

\* the structured conditions explored
TokenInputs ==
    UNION { TokenSeqsOf(SimpleTokens \cup SubTokens, n) : n \in 1..MaxOperands }

\* the lexemes of the free-form texts explored, keywords in both casings
Lexemes == {"x", "y", "and", "OR", "!", "=", "(", ")"}

\* the free-form texts explored, well-formed and malformed
TextInputs ==
    UNION { [1..n -> Lexemes] : n \in 0..MaxLex }

CondInputs ==
    [kind : {"text"}, text : TextInputs]
        \cup [kind : {"tokens"}, tokens : TokenInputs]

\* a builder at (FilledWhat, FilledFields, NoCond)
InitCond ==
    \E db \in Connections :
        LET w == [kind |-> "text", text |-> "t"]
            f == [kind |-> "text", text |-> "a"]
        IN  /\ builder = Some(field(what(new(db), w), f))
            /\ query = None
            /\ executed = [c \in Connections |-> <<>>]
            /\ calls = << [op |-> "new", arg |-> db],
                          [op |-> "what", arg |-> w],
                          [op |-> "field", arg |-> f] >>
            /\ outcome = None

\* condition(cond): cond.into() runs first; when the textual parser fails
\* the call ends there with the parser's error and the builder, moved into
\* the call, is gone
ConditionAny ==
    /\ builder # None
    /\ ImplNoCond(builder[1])
    /\ \E c \in CondInputs :
        /\ calls' = Append(calls, [op |-> "condition", arg |-> c])
        /\ IF ParseCond(c).ok
           THEN /\ builder' = Some(condition(builder[1], c))
                /\ outcome' = outcome
           ELSE /\ builder' = None
                /\ outcome' = Some([panic |-> ParseCond(c).error])
    /\ UNCHANGED <<query, executed>>

NextCond ==
    \/ ConditionAny
    \/ ToQuery
    \/ Await

SpecCond == InitCond /\ [][NextCond]_vars

\* the argument of the condition call of the chain
CondArg == calls[CHOOSE i \in Indices("condition") : TRUE].arg

\* signs that a text is not one expression: empty, an operator or an opening
\* parenthesis at the end, a binary operator or a closing parenthesis at the
\* start, unbalanced parentheses, two identifiers in a row
Count(text, lexeme) == Cardinality({i \in 1..Len(text) : text[i] = lexeme})

ObviouslyMalformed(text) ==
    \/ text = <<>>
    \/ Upper(text[Len(text)]) \in {"AND", "OR", "!", "=", "("}
    \/ Upper(text[1]) \in {"AND", "OR", "=", ")"}
    \/ Count(text, "(") # Count(text, ")")
    \/ \E i \in 1..(Len(text) - 1) : text[i] \in Idents /\ text[i + 1] \in Idents

\* C15: a condition call with free-form text either returns a builder at
\* FilledCond whose filter is the whole text (it renders back to the text,
\* keywords in canonical case), or ends with the parser's error, unchanged,
\* and no builder, with nothing handed over or executed; a malformed text
\* always ends the second way.
C15_MalformedTextIsParseError ==
    [][(Called("condition") /\ calls'[Len(calls')].arg.kind = "text") =>
        LET text == calls'[Len(calls')].arg.text IN
        /\ \/ /\ builder' # None
              /\ Stage(builder'[1]) = <<"FilledWhat", "FilledFields", "FilledCond">>
              /\ builder'[1].statement.cond # None
              /\ Render(builder'[1].statement.cond[1]) = Normalized(text)
              /\ outcome' = None
           \/ /\ builder' = None
              /\ outcome' = Some([panic |-> "ParseError"])
              /\ query' = None
              /\ executed' = executed
        /\ ObviouslyMalformed(text) =>
              /\ builder' = None
              /\ outcome' = Some([panic |-> "ParseError"])]_vars

\* a condition call with a text that starts well and ends in an operator
C15_Witness ==
    /\ Indices("condition") # {}
    /\ CondArg.kind = "text"
    /\ Len(CondArg.text) >= 2
    /\ CondArg.text[1] \in Idents
    /\ ObviouslyMalformed(CondArg.text)
    /\ outcome # None
    /\ builder = None

\* the lexemes of a token sequence in the order written, a nested sequence
\* between parentheses
RECURSIVE Written(_)
Written(ts) ==
    IF ts = <<>> THEN <<>>
    ELSE LET tok == Head(ts)
             w == CASE tok.t = "text"  -> <<tok.v>>
                    [] tok.t = "cmp"   -> <<tok.l, tok.o, tok.r>>
                    [] tok.t = "unary" -> <<tok.o, tok.v>>
                    [] tok.t = "op"    -> <<tok.o>>
                    [] tok.t = "sub"   -> <<"(">> \o Written(tok.seq) \o <<")">>
         IN  w \o Written(Tail(ts))

IsConnective(e) == e.cond = "Binary" /\ e.o \in {"AND", "OR"}

\* every AND/OR has a single operand on its right, at every nesting level
RECURSIVE LeftNested(_)
LeftNested(e) ==
    CASE e.cond = "Idiom"  -> TRUE
      [] e.cond = "Not"    -> LeftNested(e.sub)
      [] e.cond = "Group"  -> LeftNested(e.sub)
      [] e.cond = "Binary" ->
            /\ IsConnective(e) => ~ IsConnective(e.r)
            /\ LeftNested(e.l)
            /\ LeftNested(e.r)

\* C16: the filter built from a token sequence renders as the tokens in the
\* order written, each nested sequence as one parenthesized group in its
\* place, and is folded left to right: no AND/OR has another AND/OR as its
\* right operand.
C16_TokensFoldLeftToRight ==
    (Indices("condition") # {} /\ Statement # None /\ CondArg.kind = "tokens")
        => /\ Statement[1].cond # None
           /\ Render(Statement[1].cond[1]) = Written(CondArg.tokens)
           /\ LeftNested(Statement[1].cond[1])

\* x OR y AND (..): an AND after an OR, and a nested sequence
C16_Witness ==
    /\ Indices("condition") # {}
    /\ Statement # None
    /\ CondArg.kind = "tokens"
    /\ Len(CondArg.tokens) = 5
    /\ CondArg.tokens[2].o = "OR"
    /\ CondArg.tokens[4].o = "AND"
    /\ CondArg.tokens[5].t = "sub"

\* the texts that read as the lexeme sequence w, keywords in either case
Variants(lexeme) ==
    CASE lexeme = "AND" -> {"AND", "and"}
      [] lexeme = "OR"  -> {"OR", "or"}
      [] OTHER          -> {lexeme}

RECURSIVE Casings(_)
Casings(w) ==
    IF w = <<>> THEN {<<>>}
    ELSE {<<h>> \o t : h \in Variants(Head(w)), t \in Casings(Tail(w))}

C19_FieldAfterCondition ==
    /\ []((builder # None /\ builder[1].what_state = "FilledWhat"
            /\ Len(calls) < MaxCalls) => ENABLED Field)
    /\ []((builder # None /\ builder[1].cond_state = "FilledCond")
            => ~ ENABLED Condition)
    /\ [][(Called("field") /\ builder # None
            /\ builder[1].cond_state = "FilledCond") =>
            /\ builder' # None
            /\ Stage(builder'[1]) = <<"FilledWhat", "FilledFields", "FilledCond">>
            /\ builder'[1].statement.cond = builder[1].statement.cond
            /\ builder'[1].statement.expr =
                    Append(builder[1].statement.expr,
                           IntoExtraField(calls'[Len(calls')].arg))]_vars

\* a field call made after condition
C19_Witness ==
    /\ builder # None
    /\ builder[1].cond_state = "FilledCond"
    /\ \E i \in Indices("condition"), j \in Indices("field") : i < j
    /\ Len(builder[1].statement.expr) = 2

\* the modifier methods; each is named after the statement slot it writes
ModifierNames ==
    {"omit", "with", "split", "group", "order", "limit", "start", "fetch",
     "version", "timeout", "only", "parallel", "explain"}

\* C20: a modifier call leaves the three markers and the connection as they
\* were and changes no slot of the statement but its own.
C20_ModifierFrame ==
    [][\A op \in ModifierNames :
        Called(op) =>
            /\ builder # None /\ builder' # None
            /\ Stage(builder'[1]) = Stage(builder[1])
            /\ builder'[1].db = builder[1].db
            /\ \A slot \in (DOMAIN DefaultStatement) \ {op} :
                  builder'[1].statement[slot] = builder[1].statement[slot]]_vars

\* a modifier called when another modifier's slot is filled
C20_Witness ==
    /\ builder # None
    /\ builder[1].statement.limit # None
    /\ builder[1].statement.start # None
    /\ calls[Len(calls)].op = "start"

\* ====================================================================
\* Slots, commuting calls, markers and flags
\* ====================================================================

\* C21: the relation-hint slot of the statement is absent while `with` was
\* never called, and otherwise holds exactly the converted argument of the
\* most recent `with` call; nothing of earlier `with` arguments remains.
C21_WithLastWriteWins ==
    Statement # None =>
        LET args == ArgsOf("with") IN
        Statement[1].with =
            IF args = <<>> THEN None
            ELSE Some(IntoExtraWith(args[Len(args)]))

\* `with` called twice, with different arguments
C21_Witness ==
    /\ Statement # None
    /\ Len(ArgsOf("with")) = 2
    /\ ArgsOf("with")[1] # ArgsOf("with")[2]

\* ---------------------------------------------------- reordered chains
\* longest call log of a chain of SpecCommute: `new`, `what` and
\* MaxChain - 2 further calls
MaxChain == 6

\* the calls the chains of SpecCommute draw from: the projection, the
\* filter, a list clause, two slots and a flag
CommuteCalls ==
    [op : {"what"}, arg : [kind : {"text"}, text : {"t"}]]
        \cup [op : {"field"}, arg : [kind : {"text"}, text : Names]]
        \cup [op : {"condition"}, arg : CondArgs]
        \cup [op : {"omit"}, arg : IdiomArgs]
        \cup [op : {"limit", "start"}, arg : Nums]
        \cup [op : {"only"}, arg : {None}]

\* one method call on the chain
ChainCall ==
    \E c \in CommuteCalls :
        /\ builder # None
        /\ Offered(builder[1], c.op)
        /\ Len(calls) < MaxChain
        /\ builder' = Some(Apply(builder[1], c))
        /\ calls' = Append(calls, c)
        /\ UNCHANGED <<query, executed, outcome>>

SpecCommute == Init /\ [][ChainCall]_vars

\* every prefix of the call log is a call its builder offers
RECURSIVE Legal(_)
Legal(log) ==
    IF Len(log) = 1
    THEN log[1].op = "new"
    ELSE /\ Legal(SubSeq(log, 1, Len(log) - 1))
         /\ Offered(Replay(SubSeq(log, 1, Len(log) - 1)), log[Len(log)].op)

\* the calls of log to method op, in order
CallsTo(log, op) == SelectSeq(log, LAMBDA c : IsOp(c, op))

\* the call logs that hold the calls of log in another order: `new` and
\* `what` stay in front and the calls after `what` are permuted
Reorderings(log) ==
    IF Len(log) <= 2 THEN {log}
    ELSE { [i \in 1..Len(log) |-> IF i <= 2 THEN log[i] ELSE log[p[i]]] :
                p \in Permutations(3..Len(log)) }

\* the same calls, with the calls to each method in the same relative order
SameOrderPerMethod(l1, l2) ==
    \A op \in {l1[i].op : i \in 1..Len(l1)} : CallsTo(l1, op) = CallsTo(l2, op)

\* C22: every legal reordering of the calls made after `what` that keeps
\* the relative order of the calls to each method builds the same statement
\* (and the same builder) as the chain itself.
C22_DifferentSlotsCommute ==
    builder # None =>
        \A other \in Reorderings(calls) :
            (Legal(other) /\ SameOrderPerMethod(calls, other))
                => Replay(other) = builder[1]

\* a chain that has a legal reordering other than itself which keeps the
\* order per method: the filter set before a modifier, or two slots written
\* in one order, while the other chain does it the other way round
C22_Witness ==
    /\ builder # None
    /\ Len(calls) >= 5
    /\ \E i \in Indices("condition") : \E j \in Indices("limit") : i < j
    /\ \E other \in Reorderings(calls) :
            /\ other # calls
            /\ Legal(other)
            /\ SameOrderPerMethod(calls, other)

\* the accumulating clauses and the methods that push to them
ListClauses == {"omit", "split", "group", "order", "fetch"}

ClauseOf(st, op) ==
    CASE op = "omit"  -> st.omit
      [] op = "split" -> st.split
      [] op = "group" -> st.group
      [] op = "order" -> st.order
      [] op = "fetch" -> st.fetch

\* C23: while the builder is held, its projection marker is FilledFields
\* exactly when the projection list is non-empty and its filter marker is
\* FilledCond exactly when the statement has a filter; and each of the omit,
\* split, group, order and fetch clauses is absent exactly when its method
\* was never called, and otherwise holds at least one element.
C23_MarkersAgreeWithStatement ==
    /\ builder # None =>
            /\ builder[1].fields_state = "FilledFields"
                    <=> builder[1].statement.expr # <<>>
            /\ builder[1].cond_state = "FilledCond"
                    <=> builder[1].statement.cond # None
    /\ Statement # None =>
            \A op \in ListClauses :
                /\ ClauseOf(Statement[1], op) = None <=> Indices(op) = {}
                /\ ClauseOf(Statement[1], op) # None
                        => Len(ClauseOf(Statement[1], op)[1]) >= 1

\* a builder with projection, filter and a list clause, a modifier having
\* been called after the filter was set
C23_Witness ==
    /\ builder # None
    /\ Stage(builder[1]) = <<"FilledWhat", "FilledFields", "FilledCond">>
    /\ \E op \in ListClauses : \E i \in Indices("condition") :
            \E j \in Indices(op) : i < j

\* C24: the only and parallel flags of the statement are false when the
\* builder is constructed; once `only` (respectively `parallel`) has been
\* called the flag is true in every later state of the chain; and no step
\* of the chain takes either flag from true back to false.
C24_FlagsMonotone ==
    /\ [](Len(calls) = 1 =>
            /\ builder # None
            /\ ~builder[1].statement.only
            /\ ~builder[1].statement.parallel)
    /\ [](Statement # None =>
            /\ Indices("only") # {} => Statement[1].only
            /\ Indices("parallel") # {} => Statement[1].parallel)
    /\ [][(Statement # None /\ Statement' # None) =>
            /\ Statement[1].only => Statement'[1].only
            /\ Statement[1].parallel => Statement'[1].parallel]_vars

\* both flags set, with a further call made after `only`
C24_Witness ==
    /\ Statement # None
    /\ Statement[1].only
    /\ Statement[1].parallel
    /\ \E i \in Indices("only") : i < Len(calls)

\* to_query is offered on builder b
Ready(b) == ImplFilledFields(b)

\* to_query is offered on b, or after one `field` call on b, or after `what`
\* and one `field` call on b, whatever their arguments
ReadyWithinTwoCalls(b) ==
    \/ Ready(b)
    \/ /\ ImplFilledWhat(b)
       /\ \A f \in FieldArgs : Ready(field(b, f))
    \/ /\ ImplNoWhat(b)
       /\ \A w \in WhatArgs :
            /\ ImplFilledWhat(what(b, w))
            /\ \A f \in FieldArgs : Ready(field(what(b, w), f))

\* C25: every builder reachable from new() can be brought to to_query by
\* at most `what` followed by one `field`, and to_query can be called as soon
\* as it is offered; the to_query call leaves no builder behind, and once
\* the builder is gone no further call is made on the chain.
C25_NoDeadEndThenConsumed ==
    /\ [](builder # None =>
            /\ ReadyWithinTwoCalls(builder[1])
            /\ Ready(builder[1]) => ENABLED ToQuery)
    /\ [][Called("to_query") => (builder' = None /\ query' # None)]_vars
    /\ [][builder = None => (builder' = None /\ calls' = calls)]_vars

\* to_query called on the shortest chain, `what` followed by one `field`,
\* and the handle awaited afterwards
C25_Witness ==
    /\ builder = None
    /\ query = None
    /\ Len(calls) = 4
    /\ calls[4].op = "to_query"

====
